---- MODULE Spec2Model ----
(***************************************************************************)
(* Model of crates/acp_thread/src/provider_ui.rs: the price formatter      *)
(* format_price_per_million, the builder of GenericProviderListItem and    *)
(* its render, plus the host's click dispatch on the rendered row.         *)
(*                                                                         *)
(* Numbers.  An f64 is modelled by a natural number n standing for the     *)
(* double nearest to the decimal n / Scale (Scale = 10^5).  Comparisons of *)
(* such doubles agree with the comparison of the decimals; the direction   *)
(* of the binary representation error, which decides a decimal tie when    *)
(* the value is printed, is computed exactly by F64Cmp.                    *)
(*                                                                         *)
(* Strings.  A String is a sequence of one-character strings, so that the  *)
(* digits after the decimal point can be counted and the text parsed back. *)
(***************************************************************************)
EXTENDS Integers, Sequences, FiniteSets, TLC

\* ------------------------------------------------------------------ f64

Scale == 10 ^ 5

\* 5^5: the odd part of Scale; n / Scale is a binary fraction iff it divides n.
OddPart == 5 ^ 5

RECURSIVE Pow2Mod(_, _)
Pow2Mod(k, m) == IF k = 0 THEN 1 % m ELSE (2 * Pow2Mod(k - 1, m)) % m

\* floor(log2(n / Scale)) for n >= Scale, searched upwards from l.
RECURSIVE Log2Up(_, _)
Log2Up(n, l) == IF Scale * (2 ^ (l + 1)) <= n THEN Log2Up(n, l + 1) ELSE l

\* -floor(log2(n / Scale)) for 0 < n < Scale, searched upwards from m.
RECURSIVE Log2Down(_, _)
Log2Down(n, m) == IF n * (2 ^ m) >= Scale THEN m ELSE Log2Down(n, m + 1)

FloorLog2(n) == IF n >= Scale THEN Log2Up(n, 0) ELSE 0 - Log2Down(n, 1)

\* The sign of (the double nearest to n / Scale) - (n / Scale): the 53-bit
\* mantissa is n * 2^k / 5^5 rounded to the nearest integer, k = 47 - floor(log2).
F64Cmp(n) ==
    IF n = 0 THEN 0
    ELSE LET r == ((n % OddPart) * Pow2Mod(47 - FloorLog2(n), OddPart)) % OddPart
         IN  IF r = 0 THEN 0 ELSE IF 2 * r < OddPart THEN 0 - 1 ELSE 1

\* ------------------------------------------------------------- strings

Digits == <<"0", "1", "2", "3", "4", "5", "6", "7", "8", "9">>

RECURSIVE NatToString(_)
NatToString(m) ==
    IF m < 10 THEN <<Digits[m + 1]>>
    ELSE Append(NatToString(m \div 10), Digits[(m % 10) + 1])

\* m written with exactly w digits, zero-padded on the left (m < 10^w).
RECURSIVE PadDigits(_, _)
PadDigits(m, w) ==
    IF w = 0 THEN <<>> ELSE Append(PadDigits(m \div 10, w - 1), Digits[(m % 10) + 1])

\* format!("{:.prec}", x): x, the double nearest to n / Scale, rounded to prec
\* decimals on its exact binary value, a tie (possible only when the double is
\* the decimal itself) going to the even neighbour.  The result counts units
\* of 10^-prec.
RoundTo(n, prec) ==
    LET unit == 10 ^ (5 - prec)
        q    == n \div unit
        r    == n % unit
    IN  IF 2 * r < unit THEN q
        ELSE IF 2 * r > unit THEN q + 1
        ELSE IF F64Cmp(n) > 0 THEN q + 1
        ELSE IF F64Cmp(n) < 0 THEN q
        ELSE IF q % 2 = 0 THEN q ELSE q + 1

FormatFixed(n, prec) ==
    LET m == RoundTo(n, prec)
        p == 10 ^ prec
    IN  IF prec = 0 THEN NatToString(m)
        ELSE NatToString(m \div p) \o <<".">> \o PadDigits(m % p, prec)

\* The thresholds 0.01 and 1.0 of format_price_per_million, in units of 1/Scale.
Cent == Scale \div 100
One  == Scale

\* Mutant: the boundaries 0.01 and 1.0 fall into the finer tier (<= for <).
format_price_inclusive(price_per_million) ==
    IF price_per_million <= Cent THEN FormatFixed(price_per_million, 4)
    ELSE IF price_per_million <= One THEN FormatFixed(price_per_million, 2)
    ELSE FormatFixed(price_per_million, 1)

\* Mutant: the lowest tier printed with two decimals ({:.2} for {:.4}).
format_price_coarse(price_per_million) ==
    IF price_per_million < One THEN FormatFixed(price_per_million, 2)
    ELSE FormatFixed(price_per_million, 1)

format_price_per_million(price_per_million) ==
    IF price_per_million < Cent THEN FormatFixed(price_per_million, 4)
    ELSE IF price_per_million < One THEN FormatFixed(price_per_million, 2)
    ELSE FormatFixed(price_per_million, 1)

\* str::parse::<f64>() of a text made of digits and at most one point: the
\* double nearest to the decimal it spells, in units of 1/Scale.
DigitValue(c) == CHOOSE d \in 0..9 : Digits[d + 1] = c

PointAt(s) == IF \E i \in 1..Len(s) : s[i] = "."
              THEN CHOOSE i \in 1..Len(s) : s[i] = "."
              ELSE Len(s) + 1

RECURSIVE DigitsToNat(_)
DigitsToNat(s) ==
    IF Len(s) = 0 THEN 0
    ELSE 10 * DigitsToNat(SubSeq(s, 1, Len(s) - 1)) + DigitValue(s[Len(s)])

DigitsAfterPoint(s) == IF PointAt(s) > Len(s) THEN 0 ELSE Len(s) - PointAt(s)

ParseF64(s) ==
    LET p == PointAt(s)
        whole == DigitsToNat(SubSeq(s, 1, p - 1))
        frac  == DigitsToNat(SubSeq(s, p + 1, Len(s)))
    IN  whole * Scale + frac * (10 ^ (5 - DigitsAfterPoint(s)))

\* ----------------------------------------------------------- Option<T>

\* Option<T>: None is the empty sequence, Some(x) the one-element sequence.
None == <<>>
Some(x) == <<x>>
unwrap_or(opt, default) == IF opt = None THEN default ELSE opt[1]

\* ------------------------------------------------------------- inputs

\* The price grids of the formatter's inputs, in units of 1/Scale: every
\* value up to FineMax, every thousandth up to MidMax, every twentieth up to
\* CoarseMax.
FineMax   == 1100
MidMax    == 1010
CoarseMax == 60
\* The number of clicks the host dispatches in one behaviour.
MaxClicks == 2

PriceGrid == (0..FineMax) \cup {100 * j : j \in 0..MidMax}
                          \cup {5000 * j : j \in 0..CoarseMax}

NA      == <<"N", "/", "A">>
TokS    == <<"t", "o", "k", "/", "s">>
Ms      == <<"m", "s">>
Dollar  == <<"$">>
PerMIn  == <<"/", "M", " ", "i", "n">>
PerMOut == <<"/", "M", " ", "o", "u", "t">>

Ids      == {"provider-0", "provider-1"}
Handlers == {"h1", "h2"}
DisplayNames  == {<<"A", "c", "m", "e">>}
Quantizations == {None, Some(<<"f", "p", "8">>)}
\* absent, 0.5, 42.7
Throughputs   == {None, Some(50000), Some(4270000)}
\* absent, 310.2
Latencies     == {None, Some(31020000)}
\* absent, 0, 0.005
InputPrices   == {None, Some(0), Some(500)}
\* absent, 0, 2.5
OutputPrices  == {None, Some(0), Some(250000)}

\* ModelProviderInfo, as far as this file reads it.
ModelProviderInfo ==
    [display_name : DisplayNames, quantization : Quantizations,
     throughput_tps : Throughputs, latency_ms : Latencies,
     input_price_per_million : InputPrices,
     output_price_per_million : OutputPrices]

\* --------------------------------------------------------------- state

VARIABLES
    price,        \* the formatter's input
    shown,        \* Option: format_price_per_million(price)
    reparsed,     \* Option: the number parsed back from shown
    reshown,      \* Option: the parsed-back number formatted again
    id,           \* the parent's identity token of the row
    provider,     \* the parent's snapshot of the provider record
    item,         \* Option: the GenericProviderListItem under construction
    row,          \* Option: the ListItem produced by the last render
    calls,        \* the handlers invoked so far, in order
    clicks,       \* the clicks the host dispatched so far
    lastSelected, \* history: the argument of the last selected() on item
    lastHandler,  \* history: Option, the argument of the last on_click() on item
    toggled       \* history: a row was rendered again with the flag flipped

fmtVars  == <<price, shown, reparsed, reshown>>
itemVars == <<id, provider, item, row, calls, clicks, lastSelected, lastHandler, toggled>>
vars     == <<price, shown, reparsed, reshown,
              id, provider, item, row, calls, clicks, lastSelected, lastHandler, toggled>>

\* ------------------------------------------- GenericProviderListItem

new(i, p) == [id |-> i, provider |-> p, is_selected |-> FALSE, on_click |-> None]

\* Mutant: selected() rebuilds the item from new() and loses the handler.
selected_from_new(self, b) == [new(self.id, self.provider) EXCEPT !.is_selected = b]

selected(self, b) == [self EXCEPT !.is_selected = b]

on_click(self, handler) == [self EXCEPT !.on_click = Some(handler)]

Label(text, size, color) == [text |-> text, size |-> size, color |-> color]

\* Mutant: the sub-label is always built, empty when quantization is absent.
LeftColumnAlways(p) ==
    <<Label(p.display_name, "Small", "Default"),
      Label(unwrap_or(p.quantization, <<>>), "XSmall", "Muted")>>

\* The left column: the name label and, when_some(quantization), its sub-label.
LeftColumn(p) ==
    <<Label(p.display_name, "Small", "Default")>>
    \o (IF p.quantization # None
        THEN <<Label(p.quantization[1], "XSmall", "Muted")>>
        ELSE <<>>)

\* Mutant: an absent throughput shown as "N/A", like a price.
ThroughputGroupNA(p) ==
    <<Label(IF p.throughput_tps = None THEN NA
            ELSE FormatFixed(p.throughput_tps[1], 0), "XSmall", "Default"),
      Label(TokS, "XSmall", "Muted")>>

\* Mutant: the throughput truncated to its integer part (as u64) for rounded.
ThroughputGroupTruncated(p) ==
    <<Label(NatToString(unwrap_or(p.throughput_tps, 0) \div Scale), "XSmall", "Default"),
      Label(TokS, "XSmall", "Muted")>>

ThroughputGroup(p) ==
    <<Label(FormatFixed(unwrap_or(p.throughput_tps, 0), 0), "XSmall", "Default"),
      Label(TokS, "XSmall", "Muted")>>

LatencyGroup(p) ==
    <<Label(FormatFixed(unwrap_or(p.latency_ms, 0), 0) \o Ms, "XSmall", "Default")>>

\* Mutant: a price of zero treated like an absent one.
PriceTextZeroAbsent(opt) ==
    IF opt = None \/ opt = Some(0) THEN NA ELSE format_price_per_million(opt[1])

\* .map(format_price_per_million).unwrap_or_else(|| "N/A".to_string())
PriceText(opt) == IF opt = None THEN NA ELSE format_price_per_million(opt[1])

PriceLine(opt, suffix) ==
    <<Label(Dollar, "XSmall", "Default"),
      Label(PriceText(opt), "XSmall", "Default"),
      Label(suffix, "XSmall", "Muted")>>

\* Mutant: the selected row also recolours its name label.
render_accent(self) ==
    [id           |-> self.id,
     inset        |-> TRUE,
     spacing      |-> "Sparse",
     toggle_state |-> self.is_selected,
     on_click     |-> self.on_click,
     left         |-> IF self.is_selected
                      THEN [LeftColumn(self.provider) EXCEPT ![1].color = "Accent"]
                      ELSE LeftColumn(self.provider),
     throughput   |-> ThroughputGroup(self.provider),
     latency      |-> LatencyGroup(self.provider),
     price_in     |-> PriceLine(self.provider.input_price_per_million, PerMIn),
     price_out    |-> PriceLine(self.provider.output_price_per_million, PerMOut)]

\* Mutant: the handler is dropped instead of being registered on the row.
render_unwired(self) ==
    [id           |-> self.id,
     inset        |-> TRUE,
     spacing      |-> "Sparse",
     toggle_state |-> self.is_selected,
     on_click     |-> None,
     left         |-> LeftColumn(self.provider),
     throughput   |-> ThroughputGroup(self.provider),
     latency      |-> LatencyGroup(self.provider),
     price_in     |-> PriceLine(self.provider.input_price_per_million, PerMIn),
     price_out    |-> PriceLine(self.provider.output_price_per_million, PerMOut)]

render(self) ==
    [id           |-> self.id,
     inset        |-> TRUE,
     spacing      |-> "Sparse",
     toggle_state |-> self.is_selected,
     on_click     |-> self.on_click,
     left         |-> LeftColumn(self.provider),
     throughput   |-> ThroughputGroup(self.provider),
     latency      |-> LatencyGroup(self.provider),
     price_in     |-> PriceLine(self.provider.input_price_per_million, PerMIn),
     price_out    |-> PriceLine(self.provider.output_price_per_million, PerMOut)]

\* ------------------------------------------------------------- actions

\* The parent builds a fresh item for the row.
New ==
    /\ item' = Some(new(id, provider))
    /\ lastSelected' = FALSE
    /\ lastHandler' = None
    /\ UNCHANGED <<id, provider, row, calls, clicks, toggled>>
    /\ UNCHANGED fmtVars

Selected ==
    /\ item # None
    /\ \E b \in BOOLEAN :
         /\ item' = Some(selected(item[1], b))
         /\ lastSelected' = b
    /\ UNCHANGED <<id, provider, row, calls, clicks, lastHandler, toggled>>
    /\ UNCHANGED fmtVars

OnClick ==
    /\ item # None
    /\ \E h \in Handlers :
         /\ item' = Some(on_click(item[1], h))
         /\ lastHandler' = Some(h)
    /\ UNCHANGED <<id, provider, row, calls, clicks, lastSelected, toggled>>
    /\ UNCHANGED fmtVars

\* render(self) consumes the item; the row replaces the one of the last frame.
Render ==
    /\ item # None
    /\ row' = Some(render(item[1]))
    /\ toggled' = (toggled \/ (/\ row # None
                                /\ row[1].on_click = item[1].on_click
                                /\ row[1].toggle_state # item[1].is_selected))
    /\ item' = None
    /\ lastSelected' = FALSE
    /\ lastHandler' = None
    /\ UNCHANGED <<id, provider, calls, clicks>>
    /\ UNCHANGED fmtVars

\* The host dispatches a click on the row: the registered handler, if any,
\* runs once, synchronously.
Click ==
    /\ row # None
    /\ clicks < MaxClicks
    /\ clicks' = clicks + 1
    /\ calls' = IF row[1].on_click # None THEN Append(calls, row[1].on_click[1])
                ELSE calls
    /\ UNCHANGED <<id, provider, item, row, lastSelected, lastHandler, toggled>>
    /\ UNCHANGED fmtVars

Format ==
    /\ shown = None
    /\ shown' = Some(format_price_per_million(price))
    /\ UNCHANGED <<price, reparsed, reshown>>
    /\ UNCHANGED itemVars

Reparse ==
    /\ shown # None
    /\ reparsed = None
    /\ reparsed' = Some(ParseF64(shown[1]))
    /\ UNCHANGED <<price, shown, reshown>>
    /\ UNCHANGED itemVars

Reformat ==
    /\ reparsed # None
    /\ reshown = None
    /\ reshown' = Some(format_price_per_million(reparsed[1]))
    /\ UNCHANGED <<price, shown, reparsed>>
    /\ UNCHANGED itemVars

\* ------------------------------------------------------ specifications

DefaultProvider ==
    [display_name |-> <<"A", "c", "m", "e">>, quantization |-> None,
     throughput_tps |-> None, latency_ms |-> None,
     input_price_per_million |-> None, output_price_per_million |-> None]

InitItem ==
    /\ item = None
    /\ row = None
    /\ toggled = FALSE
    /\ calls = <<>>
    /\ clicks = 0
    /\ lastSelected = FALSE
    /\ lastHandler = None

InitFmt ==
    /\ shown = None
    /\ reparsed = None
    /\ reshown = None

\* The list item: any provider record, built, rendered and clicked.
Init ==
    /\ id \in Ids
    /\ provider \in ModelProviderInfo
    /\ InitItem
    /\ price = 0
    /\ InitFmt

Next == New \/ Selected \/ OnClick \/ Render \/ Click

Spec == Init /\ [][Next]_vars

\* The formatter alone: any price of the grid, formatted, parsed back and
\* formatted again.
FmtInit ==
    /\ price \in PriceGrid
    /\ InitFmt
    /\ id = "provider-0"
    /\ provider = DefaultProvider
    /\ InitItem

FmtNext == Format \/ Reparse \/ Reformat

FmtSpec == FmtInit /\ [][FmtNext]_vars

\* -------------------------------------------------------------- claims

Texts(labels) == [i \in DOMAIN labels |-> labels[i].text]

\* C1: the text of a price p has exactly 4 digits after the point if
\* p < 0.01, exactly 2 if 0.01 <= p < 1.0 and exactly 1 if p >= 1.0, the
\* tier being chosen on the unrounded p.
C1_TierDigits ==
    shown # None =>
        DigitsAfterPoint(shown[1]) =
            (IF 100 * price < Scale THEN 4 ELSE IF price < Scale THEN 2 ELSE 1)

\* A price below 0.01 whose four-decimal text reads 0.0100.
C1_Witness ==
    /\ shown # None
    /\ 100 * price < Scale
    /\ 100 * ParseF64(shown[1]) = Scale
    /\ DigitsAfterPoint(shown[1]) = 4

\* C2: formatting the number parsed back from a formatted price yields the
\* same text again.
C2_Idempotent == reshown # None => reshown = shown

\* C9 as claimed: every price p with 0 < p < 0.05 is formatted to a text
\* different from the text of the price 0.
C9_AllPositiveDistinct ==
    (shown # None /\ 0 < price /\ price < Scale \div 20) =>
        shown[1] # format_price_per_million(0)

\* C9 as amended: every price p with 0.00005 < p < 0.05 is formatted to a text
\* different from the text of the price 0.
C9_LowPricesDistinct ==
    (shown # None /\ price > Scale \div 20000 /\ price < Scale \div 20) =>
        shown[1] # format_price_per_million(0)

\* A formatted price between 0.00005 and 0.0001.
C9_Witness ==
    /\ shown # None
    /\ price > Scale \div 20000
    /\ price < Scale \div 10000
    /\ shown[1] # format_price_per_million(0)

\* C3: in the rendered row the input price text is "N/A" exactly when
\* input_price_per_million is absent, the output price text is "N/A" exactly
\* when output_price_per_million is absent, whatever the other fields are, and
\* a present price of 0 is shown as the number 0.0000.
C3_NAIffAbsent ==
    row # None =>
        LET r == row[1]
            zero == <<"0", ".", "0", "0", "0", "0">>
        IN  /\ (r.price_in[2].text = NA) <=> (provider.input_price_per_million = None)
            /\ (r.price_out[2].text = NA) <=> (provider.output_price_per_million = None)
            /\ provider.input_price_per_million = Some(0) => r.price_in[2].text = zero
            /\ provider.output_price_per_million = Some(0) => r.price_out[2].text = zero

\* A row rendered with the input price absent and the output price 0.
C3_Witness ==
    /\ row # None
    /\ provider.input_price_per_million = None
    /\ provider.output_price_per_million = Some(0)
    /\ row[1].price_in[2].text = NA
    /\ row[1].price_out[2].text # NA

\* A complete row: every group holds its labels and every label a text.
IsRow(r) ==
    /\ DOMAIN r = {"id", "inset", "spacing", "toggle_state", "on_click", "left",
                   "throughput", "latency", "price_in", "price_out"}
    /\ r.toggle_state \in BOOLEAN
    /\ Len(r.left) \in {1, 2}
    /\ Len(r.throughput) = 2
    /\ Len(r.latency) = 1
    /\ Len(r.price_in) = 3
    /\ Len(r.price_out) = 3
    /\ \A g \in {r.left, r.throughput, r.latency, r.price_in, r.price_out} :
           \A k \in DOMAIN g : Len(g[k].text) > 0

\* C4: an absent throughput_tps is shown as "0" followed by the "tok/s"
\* label and an absent latency_ms as "0ms"; with all four metrics absent the
\* row shows "0" "tok/s", "0ms", "$" "N/A" "/M in" and "$" "N/A" "/M out"; and
\* render yields a complete row for every item, whatever fields are present.
C4_AbsentMetrics ==
    /\ item # None => IsRow(render(item[1]))
    /\ row # None =>
        LET r == row[1] IN
        /\ provider.throughput_tps = None => Texts(r.throughput) = <<(<<"0">>), TokS>>
        /\ provider.latency_ms = None => Texts(r.latency) = <<(<<"0", "m", "s">>)>>
        /\ (/\ provider.throughput_tps = None
            /\ provider.latency_ms = None
            /\ provider.input_price_per_million = None
            /\ provider.output_price_per_million = None)
           => /\ Texts(r.price_in) = <<Dollar, NA, PerMIn>>
              /\ Texts(r.price_out) = <<Dollar, NA, PerMOut>>

\* A row rendered from a provider with all four metrics absent.
C4_Witness ==
    /\ row # None
    /\ provider.throughput_tps = None
    /\ provider.latency_ms = None
    /\ provider.input_price_per_million = None
    /\ provider.output_price_per_million = None

\* The whole number a text of digits spells is nearest to the value n.
NearestInteger(digits, n) ==
    LET m == DigitsToNat(digits) * Scale
    IN  2 * (IF m > n THEN m - n ELSE n - m) <= Scale

\* C5: with the metrics present the row shows the throughput rounded to the
\* nearest integer followed by "tok/s", the latency rounded to the nearest
\* integer followed by "ms", and the price lines "$<input>/M in" and
\* "$<output>/M out" with each price formatted by format_price_per_million;
\* throughput 42.7, latency 310.2, input price 0.005 and output price 2.5
\* show as "43" "tok/s", "310ms", "$0.0050/M in" and "$2.5/M out".
C5_PresentMetrics ==
    row # None =>
        LET r == row[1]
            t == provider.throughput_tps
            l == provider.latency_ms
            i == provider.input_price_per_million
            o == provider.output_price_per_million
        IN  /\ t # None =>
                /\ Len(r.throughput) = 2
                /\ r.throughput[2].text = TokS
                /\ NearestInteger(r.throughput[1].text, t[1])
            /\ l # None =>
                LET txt == r.latency[1].text IN
                /\ Len(r.latency) = 1
                /\ Len(txt) > 2
                /\ SubSeq(txt, Len(txt) - 1, Len(txt)) = Ms
                /\ NearestInteger(SubSeq(txt, 1, Len(txt) - 2), l[1])
            /\ i # None =>
                Texts(r.price_in) = <<Dollar, format_price_per_million(i[1]), PerMIn>>
            /\ o # None =>
                Texts(r.price_out) = <<Dollar, format_price_per_million(o[1]), PerMOut>>
            /\ (t = Some(4270000) /\ l = Some(31020000) /\ i = Some(500) /\ o = Some(250000))
               => /\ Texts(r.throughput) = <<(<<"4", "3">>), TokS>>
                  /\ Texts(r.latency) = <<(<<"3", "1", "0", "m", "s">>)>>
                  /\ Texts(r.price_in) = <<Dollar, <<"0", ".", "0", "0", "5", "0">>, PerMIn>>
                  /\ Texts(r.price_out) = <<Dollar, <<"2", ".", "5">>, PerMOut>>

\* A row rendered from throughput 42.7, latency 310.2, prices 0.005 and 2.5.
C5_Witness ==
    /\ row # None
    /\ provider.throughput_tps = Some(4270000)
    /\ provider.latency_ms = Some(31020000)
    /\ provider.input_price_per_million = Some(500)
    /\ provider.output_price_per_million = Some(250000)

\* C6: rendering the row again from the same id, provider and handler with
\* another value of selected() changes the row's toggle state and nothing
\* else; the toggle state is the flag the item was built with.
C6_SelectionIsHint ==
    [][ /\ (item # None /\ item' = None) =>
               row'[1].toggle_state = item[1].is_selected
        /\ (row # None /\ row' # None /\ row'[1].on_click = row[1].on_click) =>
               [row'[1] EXCEPT !.toggle_state = FALSE]
                   = [row[1] EXCEPT !.toggle_state = FALSE]
      ]_vars

\* A row was rendered again with the same handler and the flag flipped.
C6_Witness == toggled /\ row # None /\ row[1].on_click # None

\* C7: the rendered row carries the handler of the last on_click() call on
\* its item, or none if there was none; a click on a row with a handler
\* invokes that handler once, a click on a row without one invokes nothing;
\* a click changes neither the item, the row nor the provider record, and
\* nothing but a click invokes a handler.
C7_ClickDispatch ==
    [][ /\ (item # None /\ item' = None) => row'[1].on_click = lastHandler
        /\ clicks' # clicks =>
               /\ clicks' = clicks + 1
               /\ calls' = IF row[1].on_click = None THEN calls
                           ELSE Append(calls, row[1].on_click[1])
               /\ UNCHANGED <<id, provider, item, row>>
        /\ calls' # calls => clicks' # clicks
      ]_vars

\* Two clicks were dispatched, one on a row with a handler and one on a row
\* without.
C7_Witness == clicks = 2 /\ Len(calls) = 1 /\ row # None /\ row[1].on_click # None

\* C8: the left column holds the name label followed by exactly one
\* sub-label with the quantization text when quantization is present, and the
\* name label alone when it is absent.
C8_QuantizationLabel ==
    row # None =>
        LET left == row[1].left
            q == provider.quantization
        IN  /\ left[1].text = provider.display_name
            /\ q # None => Len(left) = 2 /\ left[2].text = q[1]
            /\ q = None => Len(left) = 1

\* A row rendered from a provider with a quantization.
C8_Witness ==
    /\ row # None
    /\ provider.quantization # None
    /\ Len(row[1].left) = 2

\* C10: an item holds the id and provider given to new, the flag of the last
\* selected() call (false if none) and the handler of the last on_click()
\* call (none if none); the two modifiers commute.
C10_BuilderFrame ==
    item # None =>
        /\ item[1] = [id |-> id, provider |-> provider,
                      is_selected |-> lastSelected, on_click |-> lastHandler]
        /\ \A b \in BOOLEAN, h \in Handlers :
               selected(on_click(item[1], h), b) = on_click(selected(item[1], b), h)

\* An item on which selected(true) and on_click were called.
C10_Witness ==
    /\ item # None
    /\ lastSelected
    /\ lastHandler = Some("h2")
    /\ item[1].is_selected
    /\ item[1].on_click = Some("h2")

====
